---- MODULE Spec2Model ----
(***************************************************************************)
(* Triangular element local-basis engine of HFPx3D (3d_bem).               *)
(*                                                                         *)
(* The builders of src/ele_base.cpp (namespace hfp3d) and of the older     *)
(* src/Ele_Base.cpp are pure functions over double and                     *)
(* std::complex<double>.  They are modelled here as operators over exact   *)
(* extended rationals: a value is <<n, d>> with d > 0 in lowest terms for  *)
(* a finite number, and d = 0 for the IEEE-754 specials a division by zero *)
(* produces (<<0,0>> NaN, <<1,0>> +Inf, <<-1,0>> -Inf).  Rounding is not   *)
(* modelled; signed zeros are not distinguished.  The state machine is a   *)
(* caller that invokes one builder at a time and looks at what it          *)
(* returned; env is the caller's rotation-matrix object, which it passes   *)
(* by reference to the builders that take one.  drv is the driver          *)
(* (main.cpp): its position, loop indices and what it has written and read *)
(* so far.                                                                 *)
(***************************************************************************)
EXTENDS Integers, Sequences, FiniteSets, TLC

VARIABLES pc, op, args, res, env, drv

vars == <<pc, op, args, res, env, drv>>

(***************************************************************************)
(* Bounds of the model.                                                    *)
(***************************************************************************)
MaxCoord == 2
MaxSmallCoord == 1
MaxW == 2
MaxBeta == 1
MaxOffset == 5
MaxElems == 3

(***************************************************************************)
(* double arithmetic (IEEE-754 without rounding).                          *)
(***************************************************************************)
Abs(n) == IF n < 0 THEN -n ELSE n

Sgn(n) == IF n < 0 THEN -1 ELSE IF n = 0 THEN 0 ELSE 1

RECURSIVE Gcd(_, _)
Gcd(a, b) == IF b = 0 THEN a ELSE Gcd(b, a % b)

Norm(n, d) ==
    IF n = 0 THEN <<0, 1>>
    ELSE LET g == Gcd(Abs(n), Abs(d))
         IN  IF d < 0 THEN <<(-n) \div g, (-d) \div g>>
                      ELSE <<n \div g, d \div g>>

NaN == <<0, 0>>
PInf == <<1, 0>>
Zero == <<0, 1>>
One == <<1, 1>>
R(n) == <<n, 1>>
Q(n, d) == Norm(n, d)

IsNaN(a) == a[2] = 0 /\ a[1] = 0
IsInf(a) == a[2] = 0 /\ a[1] # 0
IsFinite(a) == a[2] # 0
IsZero(a) == a[2] # 0 /\ a[1] = 0

RNeg(a) == <<-a[1], a[2]>>

RAdd(a, b) ==
    IF a[2] # 0 /\ b[2] # 0
    THEN IF a[1] = 0 THEN b
         ELSE IF b[1] = 0 THEN a
         ELSE Norm(a[1] * b[2] + b[1] * a[2], a[2] * b[2])
    ELSE IF IsNaN(a) \/ IsNaN(b) THEN NaN
    ELSE IF IsInf(a) /\ IsInf(b) THEN (IF a[1] = b[1] THEN a ELSE NaN)
    ELSE IF IsInf(a) THEN a
    ELSE b

RSub(a, b) == RAdd(a, RNeg(b))

RMul(a, b) ==
    IF a[2] # 0 /\ b[2] # 0
    THEN IF a[1] = 0 \/ b[1] = 0 THEN Zero
         ELSE Norm(a[1] * b[1], a[2] * b[2])
    ELSE IF IsNaN(a) \/ IsNaN(b) THEN NaN
    ELSE IF IsZero(a) \/ IsZero(b) THEN NaN
    ELSE <<Sgn(a[1]) * Sgn(b[1]), 0>>

\* a / b: x/0 is NaN for x = 0 and an infinity otherwise; x/Inf is 0.
RDiv(a, b) ==
    IF IsNaN(a) \/ IsNaN(b) THEN NaN
    ELSE IF IsInf(b) THEN (IF IsInf(a) THEN NaN ELSE Zero)
    ELSE IF b[1] = 0 THEN (IF IsZero(a) THEN NaN ELSE <<Sgn(a[1]), 0>>)
    ELSE IF IsInf(a) THEN <<Sgn(a[1]) * Sgn(b[1]), 0>>
    ELSE Norm(a[1] * b[2], a[2] * b[1])

IsSquare(k) == \E r \in 0..k : r * r = k

ISqrt(k) == CHOOSE r \in 0..k : r * r = k

\* std::sqrt on the values the model feeds it (squares of rationals).
RSqrt(a) ==
    IF IsNaN(a) THEN NaN
    ELSE IF IsInf(a) THEN (IF a[1] > 0 THEN PInf ELSE NaN)
    ELSE IF a[1] < 0 THEN NaN
    ELSE <<ISqrt(a[1]), ISqrt(a[2])>>

(***************************************************************************)
(* std::complex<double>: <<re, im>>.                                       *)
(***************************************************************************)
C(re, im) == <<re, im>>
CZero == <<Zero, Zero>>
COne == <<One, Zero>>
CReal(a) == <<a, Zero>>
CIsFinite(z) == IsFinite(z[1]) /\ IsFinite(z[2])
CConj(z) == <<z[1], RNeg(z[2])>>
CNeg(z) == <<RNeg(z[1]), RNeg(z[2])>>
CAdd(z, w) == <<RAdd(z[1], w[1]), RAdd(z[2], w[2])>>
CSub(z, w) == <<RSub(z[1], w[1]), RSub(z[2], w[2])>>
CMul(z, w) ==
    <<RSub(RMul(z[1], w[1]), RMul(z[2], w[2])),
      RAdd(RMul(z[1], w[2]), RMul(z[2], w[1]))>>
\* double * complex scales both parts
CScale(a, z) == <<RMul(a, z[1]), RMul(a, z[2])>>

\* std::complex operator/ on the two conventions a build can use: the
\* textbook quotient (-fcx-limited-range, -ffast-math) and the C99 Annex G
\* quotient, which recovers an infinity when a non-NaN value is divided
\* by zero.
CDivModes == {"textbook", "annexG"}

CDiv(z, w, mode) ==
    LET den == RAdd(RMul(w[1], w[1]), RMul(w[2], w[2]))
        x == RDiv(RAdd(RMul(z[1], w[1]), RMul(z[2], w[2])), den)
        y == RDiv(RSub(RMul(z[2], w[1]), RMul(z[1], w[2])), den)
    IN  IF mode = "annexG" /\ IsNaN(x) /\ IsNaN(y) /\ IsZero(den)
           /\ (~IsNaN(z[1]) \/ ~IsNaN(z[2]))
        THEN <<RMul(PInf, z[1]), RMul(PInf, z[2])>>
        ELSE <<x, y>>

(***************************************************************************)
(* il::StaticArray<double, 3> and il::StaticArray2D<double, 3, 3>:         *)
(* functions over 0..2, indexed as in the source.                          *)
(***************************************************************************)
I3 == 0..2

I2 == 0..1

I6 == 0..5

\* Arrays are stored: every entry is computed once, when the array is built
Arr2(f) == (0 :> f[0]) @@ (1 :> f[1])

Arr3(f) == (0 :> f[0]) @@ (1 :> f[1]) @@ (2 :> f[2])

Arr6(f) ==
    ((0 :> f[0]) @@ (1 :> f[1]) @@ (2 :> f[2]))
    @@ ((3 :> f[3]) @@ (4 :> f[4]) @@ (5 :> f[5]))

Mat2(m) == Arr2([i \in I2 |-> Arr2(m[i])])

Mat3(m) == Arr3([i \in I3 |-> Arr3(m[i])])

Mat6(m) == Arr6([i \in I6 |-> Arr6(m[i])])

Vec(x, y, z) == (0 :> x) @@ (1 :> y) @@ (2 :> z)

\* A local variable: its initialiser is evaluated where the local is
\* declared, and the statements after it read the value.
Local(init, Body(_)) == CHOOSE r \in {Body(v) : v \in {init}} : TRUE

Transpose(m) == Mat3([i \in I3 |-> [j \in I3 |-> m[j][i]]])

\* il::dot(A, x): matrix times vector
dot_mv(A, x) ==
    Arr3([i \in I3 |->
        RAdd(RAdd(RMul(A[i][0], x[0]), RMul(A[i][1], x[1])),
             RMul(A[i][2], x[2]))])

\* il::dot(x, A): vector times matrix ("or transposed RM dot VV")
dot_vm(x, A) ==
    Arr3([j \in I3 |->
        RAdd(RAdd(RMul(x[0], A[0][j]), RMul(x[1], A[1][j])),
             RMul(x[2], A[2][j]))])

\* il::dot(A, B): 3x3 matrix product
dot_mm(A, B) ==
    Mat3([i \in I3 |-> [j \in I3 |->
        RAdd(RAdd(RMul(A[i][0], B[0][j]), RMul(A[i][1], B[1][j])),
             RMul(A[i][2], B[2][j]))]])

l2norm(a) ==
    RSqrt(RAdd(RAdd(RAdd(Zero, RMul(a[0], a[0])), RMul(a[1], a[1])),
               RMul(a[2], a[2])))

VNorm(a) ==
    RSqrt(RAdd(RAdd(RAdd(Zero, RMul(a[0], a[0])), RMul(a[1], a[1])),
               RMul(a[2], a[2])))

\* mutant of normalize: the square root is forgotten
normalize_no_sqrt(a) ==
    Local(RMul(l2norm(a), l2norm(a)), LAMBDA n_a :
        Arr3([k \in I3 |-> RDiv(a[k], n_a)]))

\* hfp3d::normalize: no test of the norm, a[k] / n_a for every k
normalize(a) ==
    Local(l2norm(a), LAMBDA n_a : Arr3([k \in I3 |-> RDiv(a[k], n_a)]))

\* normalize of Ele_Base.cpp
normalize_EB(a) ==
    Local(VNorm(a), LAMBDA N : Arr3([k \in I3 |-> RDiv(a[k], N)]))

cross(a, b) ==
    Vec(RSub(RMul(a[1], b[2]), RMul(a[2], b[1])),
        RSub(RMul(a[2], b[0]), RMul(a[0], b[2])),
        RSub(RMul(a[0], b[1]), RMul(a[1], b[0])))

\* el_vert(j, k) is coordinate j of vertex k
edge_vec(el_vert, k) ==
    Arr3([j \in I3 |-> RSub(el_vert[j][k], el_vert[j][0])])

make_el_r_tensor(el_vert) ==
    Local(normalize(edge_vec(el_vert, 1)), LAMBDA e1 :
    Local(normalize(cross(e1, edge_vec(el_vert, 2))), LAMBDA e3 :
    Local(normalize(cross(e3, e1)), LAMBDA e2 :
        Mat3([i \in I3 |-> [j \in I3 |->
            IF i = 0 THEN e1[j] ELSE IF i = 1 THEN e2[j] ELSE e3[j]]]))))

\* mutant of El_LB_RT: the basis vectors are stored as rows
El_LB_RT_rows(EV) ==
    Local(normalize_EB(edge_vec(EV, 1)), LAMBDA e1 :
    Local(normalize_EB(cross(e1, edge_vec(EV, 2))), LAMBDA e3 :
    Local(normalize_EB(cross(e3, e1)), LAMBDA e2 :
        Mat3([j \in I3 |-> [c \in I3 |->
            IF j = 0 THEN e1[c] ELSE IF j = 1 THEN e2[c] ELSE e3[c]]]))))

\* RM(j, 0) = a1[j], RM(j, 1) = a2[j], RM(j, 2) = a3[j]
El_LB_RT(EV) ==
    Local(normalize_EB(edge_vec(EV, 1)), LAMBDA e1 :
    Local(normalize_EB(cross(e1, edge_vec(EV, 2))), LAMBDA e3 :
    Local(normalize_EB(cross(e3, e1)), LAMBDA e2 :
        Mat3([j \in I3 |-> [c \in I3 |->
            IF c = 0 THEN e1[j] ELSE IF c = 1 THEN e2[j] ELSE e3[j]]]))))

(***************************************************************************)
(* Conformal map [tau, conj(tau)] -> [x, y].                               *)
(***************************************************************************)
\* z23[k] of make_el_tau_2_mc: vertex k+1 relative to vertex 0, rotated by
\* r_tensor, in-plane part as a complex number
z23_of(el_vert, r_tensor, k) ==
    Local(dot_mv(r_tensor, edge_vec(el_vert, k + 1)), LAMBDA xsi :
        C(xsi[0], xsi[1]))

\* mutant of m_det_of: the two products are exchanged
m_det_exchanged(z1, z2) == CSub(CMul(z2, CConj(z1)), CMul(z1, CConj(z2)))

m_det_of(z1, z2) == CSub(CMul(z1, CConj(z2)), CMul(z2, CConj(z1)))

\* mutant of transform_of: the sign of entry (0, 1) is lost
transform_sign_lost(z1, z2, mode) ==
    Local(m_det_of(z1, z2), LAMBDA m_det :
        Mat2([i \in I2 |-> [j \in I2 |->
            IF i = 0 /\ j = 0 THEN CDiv(CConj(z2), m_det, mode)
            ELSE IF i = 0 /\ j = 1 THEN CDiv(z2, m_det, mode)
            ELSE IF i = 1 /\ j = 0 THEN CDiv(CNeg(CConj(z1)), m_det, mode)
            ELSE CDiv(z1, m_det, mode)]]))

transform_of(z1, z2, mode) ==
    Local(m_det_of(z1, z2), LAMBDA m_det :
        Mat2([i \in I2 |-> [j \in I2 |->
            IF i = 0 /\ j = 0 THEN CDiv(CConj(z2), m_det, mode)
            ELSE IF i = 0 /\ j = 1 THEN CDiv(CNeg(z2), m_det, mode)
            ELSE IF i = 1 /\ j = 0 THEN CDiv(CNeg(CConj(z1)), m_det, mode)
            ELSE CDiv(z1, m_det, mode)]]))

make_el_tau_2_mc(el_vert, r_tensor, mode) ==
    Local(z23_of(el_vert, r_tensor, 0), LAMBDA z1 :
    Local(z23_of(el_vert, r_tensor, 1), LAMBDA z2 :
        transform_of(z1, z2, mode)))

\* mutant of z23_EB: RM dot VV without the transposition
z23_EB_untransposed(EV, RM, k) ==
    Local(dot_mv(RM, edge_vec(EV, k + 1)), LAMBDA xsi :
        C(xsi[0], xsi[1]))

\* z23[k] of El_CT: xsi = il::dot(VV, RM)
z23_EB(EV, RM, k) ==
    Local(dot_vm(edge_vec(EV, k + 1), RM), LAMBDA xsi :
        C(xsi[0], xsi[1]))

\* El_CT builds its own frame (El_LB_RT(RM, EV)) before using it
El_CT(EV, mode) ==
    Local(El_LB_RT(EV), LAMBDA RM :
    Local(z23_EB(EV, RM, 0), LAMBDA z1 :
    Local(z23_EB(EV, RM, 1), LAMBDA z2 :
        transform_of(z1, z2, mode))))

(***************************************************************************)
(* Inputs.  An element is el_vert: coordinate j of vertex k at             *)
(* el_vert[j][k].  The vertices are integer points; the elements kept are  *)
(* those whose edge norms are rational, so that std::sqrt is exact.        *)
(***************************************************************************)
Points(n) == {<<x, y, z>> : x \in 0..n, y \in 0..n, z \in 0..n}

Origin0 == <<0, 0, 0>>
Origin1 == <<1, -2, 3>>

IDot(a, b) == a[1] * b[1] + a[2] * b[2] + a[3] * b[3]

ICross(a, b) ==
    <<a[2] * b[3] - a[3] * b[2], a[3] * b[1] - a[1] * b[3],
      a[1] * b[2] - a[2] * b[1]>>

\* |a1| and |a1 x a2| are rational: every norm the frame builder takes is
RationalNorms(a1, a2) ==
    /\ IsSquare(IDot(a1, a1))
    /\ IsSquare(IDot(ICross(a1, a2), ICross(a1, a2)))

MkElement(v0, a1, a2) ==
    Mat3([j \in I3 |-> [k \in I3 |->
        IF k = 0 THEN R(v0[j + 1])
        ELSE IF k = 1 THEN R(v0[j + 1] + a1[j + 1])
        ELSE R(v0[j + 1] + a2[j + 1])]])

ElementsOn(origins, n) ==
    {MkElement(v0, a[1], a[2]) : v0 \in origins,
        a \in {p \in Points(n) \X Points(n) : RationalNorms(p[1], p[2])}}

\* the elements given to the frame and conformal-map builders
Elements == ElementsOn({Origin0, Origin1}, MaxCoord)

\* the elements given to the shape-function and collocation builders
SmallElements == ElementsOn({Origin1}, MaxSmallCoord)

\* vertex_wts the code accepts although a weight is zero or negative
BadWeights ==
    {Vec(R(0), R(1), R(1)), Vec(R(1), R(0), R(2)), Vec(R(2), R(1), R(0)),
     Vec(R(0), R(0), R(0)), Vec(R(-1), R(-1), R(-1)), Vec(R(1), R(-1), R(2))}

\* vertex_wts: the code takes any three doubles, zero and negative included
Weights == [I3 -> {R(w) : w \in 1..MaxW}] \cup BadWeights

\* beta = b / (MaxBeta + 1): 0 and fractions below 1
Betas == {Q(b, MaxBeta + 1) : b \in 0..MaxBeta}

(***************************************************************************)
(* Shape-function coefficient matrices (6x6, complex).                     *)
(***************************************************************************)

\* sfm_mc of make_el_sfm_uniform / SFM_M of El_SFM_S: rows are the shape
\* functions over the master element in [1, x, y, x^2, y^2, x*y]
sfm_mc_uniform ==
    Mat6([i \in I6 |-> [j \in I6 |->
        CASE i = 0 /\ j = 0 -> R(1)
          [] i = 0 /\ j = 1 -> R(-3)
          [] i = 0 /\ j = 2 -> R(-3)
          [] i = 0 /\ j = 3 -> R(2)
          [] i = 0 /\ j = 4 -> R(2)
          [] i = 0 /\ j = 5 -> R(4)
          [] i = 1 /\ j = 1 -> R(-1)
          [] i = 1 /\ j = 3 -> R(2)
          [] i = 2 /\ j = 2 -> R(-1)
          [] i = 2 /\ j = 4 -> R(2)
          [] i = 3 /\ j = 5 -> R(4)
          [] i = 4 /\ j = 2 -> R(4)
          [] i = 4 /\ j = 4 -> R(-4)
          [] i = 4 /\ j = 5 -> R(-4)
          [] i = 5 /\ j = 1 -> R(4)
          [] i = 5 /\ j = 3 -> R(-4)
          [] i = 5 /\ j = 5 -> R(-4)
          [] OTHER -> Zero]])

\* mutant of wts_ratios: p23 is taken upside down
wts_ratios_p23_inverted(vertex_wts) ==
    [p12 |-> RDiv(vertex_wts[0], vertex_wts[1]),
     p13 |-> RDiv(vertex_wts[0], vertex_wts[2]),
     p23 |-> RDiv(vertex_wts[2], vertex_wts[1])]

\* p12, p13, p23 of make_el_sfm_nonuniform / P12, P13, P23 of El_SFM_N
wts_ratios(vertex_wts) ==
    [p12 |-> RDiv(vertex_wts[0], vertex_wts[1]),
     p13 |-> RDiv(vertex_wts[0], vertex_wts[2]),
     p23 |-> RDiv(vertex_wts[1], vertex_wts[2])]

\* sfm_mc of make_el_sfm_nonuniform / SFM_M of El_SFM_N: the ratios are
\* taken without any test of the weights
sfm_mc_nonuniform(vertex_wts) ==
    LET p12 == wts_ratios(vertex_wts).p12
        p13 == wts_ratios(vertex_wts).p13
        p23 == wts_ratios(vertex_wts).p23
        c122 == RAdd(p12, One)
        c121 == RAdd(RDiv(One, p12), One)
        c12q == RAdd(c121, c122)
        c233 == RAdd(p23, One)
        c232 == RAdd(RDiv(One, p23), One)
        c23q == RAdd(c232, c233)
        c133 == RAdd(p13, One)
        c131 == RAdd(RDiv(One, p13), One)
        c13q == RAdd(c131, c133)
    IN  Mat6([i \in I6 |-> [j \in I6 |->
        CASE i = 0 /\ j = 0 -> One
          [] i = 0 /\ j = 1 -> RSub(RNeg(p12), R(2))
          [] i = 0 /\ j = 2 -> RSub(RNeg(p13), R(2))
          [] i = 0 /\ j = 3 -> c122
          [] i = 0 /\ j = 4 -> c133
          [] i = 0 /\ j = 5 -> RAdd(RAdd(p13, p12), R(2))
          [] i = 1 /\ j = 1 -> RDiv(R(-1), p12)
          [] i = 1 /\ j = 3 -> c121
          [] i = 1 /\ j = 5 -> RSub(RDiv(One, p12), p23)
          [] i = 2 /\ j = 2 -> RDiv(R(-1), p13)
          [] i = 2 /\ j = 4 -> c131
          [] i = 2 /\ j = 5 -> RSub(RDiv(One, p13), RDiv(One, p23))
          [] i = 3 /\ j = 5 -> c23q
          [] i = 4 /\ j = 2 -> c13q
          [] i = 4 /\ j = 4 -> RNeg(c13q)
          [] i = 4 /\ j = 5 -> RNeg(c13q)
          [] i = 5 /\ j = 1 -> c12q
          [] i = 5 /\ j = 3 -> RNeg(c12q)
          [] i = 5 /\ j = 5 -> RNeg(c12q)
          [] OTHER -> Zero]])

\* mutant of cq_of: the 2.0 of the mixed term is forgotten
cq_of_no_factor(tau_2_mc) ==
    Mat3([j \in I3 |-> [k \in I3 |->
        IF j <= 1 /\ k <= 1 THEN CMul(tau_2_mc[j][k], tau_2_mc[j][k])
        ELSE IF j <= 1 THEN CMul(tau_2_mc[j][0], tau_2_mc[j][1])
        ELSE IF k <= 1 THEN CMul(tau_2_mc[0][k], tau_2_mc[1][k])
        ELSE CAdd(CMul(tau_2_mc[0][0], tau_2_mc[1][1]),
                  CMul(tau_2_mc[1][0], tau_2_mc[0][1]))]])

\* cq: how [tau^2, conj(tau)^2, tau*conj(tau)] go to [x^2, y^2, x*y]
cq_of(tau_2_mc) ==
    Mat3([j \in I3 |-> [k \in I3 |->
        IF j <= 1 /\ k <= 1 THEN CMul(tau_2_mc[j][k], tau_2_mc[j][k])
        ELSE IF j <= 1 THEN
            CMul(CScale(R(2), tau_2_mc[j][0]), tau_2_mc[j][1])
        ELSE IF k <= 1 THEN CMul(tau_2_mc[0][k], tau_2_mc[1][k])
        ELSE CAdd(CMul(tau_2_mc[0][0], tau_2_mc[1][1]),
                  CMul(tau_2_mc[1][0], tau_2_mc[0][1]))]])

\* tau_sq_2_mc / CTau: 1, then tau_2_mc, then cq on the diagonal
tau_sq_2_mc_of(tau_2_mc) ==
    Local(cq_of(tau_2_mc), LAMBDA cq :
        Mat6([j \in I6 |-> [k \in I6 |->
            IF j = 0 /\ k = 0 THEN COne
            ELSE IF j \in 1..2 /\ k \in 1..2 THEN tau_2_mc[j - 1][k - 1]
            ELSE IF j \in 3..5 /\ k \in 3..5 THEN cq[j - 3][k - 3]
            ELSE CZero]]))

\* a double stored into a std::complex<double> entry: imaginary part 0
CMat(A) == Mat6([i \in I6 |-> [j \in I6 |-> CReal(A[i][j])]])

RECURSIVE dot_row(_, _, _, _, _)
\* il::dot on 6x6 complex matrices: entry (i, j) accumulated over k = 0..5
dot_row(A, B, i, j, k) ==
    IF k < 0 THEN CZero
    ELSE Local(dot_row(A, B, i, j, k - 1), LAMBDA acc :
            CAdd(acc, CMul(A[i][k], B[k][j])))

dot_66(A, B) ==
    Mat6([i \in I6 |-> [j \in I6 |-> dot_row(A, B, i, j, 5)]])

\* assembly of sfm: il::dot(sfm_mc, tau_sq_2_mc).  The record returned
\* holds the matrix, the frame written through the il::io_t parameter, and
\* the locals sfm_mc, tau_2_mc and tau_sq_2_mc for inspection.
assemble_sfm(sfm_mc, tau_2_mc, r_tensor) ==
    Local(CMat(sfm_mc), LAMBDA sfm_c :
    Local(tau_sq_2_mc_of(tau_2_mc), LAMBDA tau_sq_2_mc :
        [sfm |-> dot_66(sfm_c, tau_sq_2_mc),
         r_tensor |-> r_tensor,
         sfm_mc |-> sfm_mc,
         tau_2_mc |-> tau_2_mc,
         tau_sq_2_mc |-> tau_sq_2_mc]))

make_el_sfm_uniform(el_vert, mode) ==
    Local(make_el_r_tensor(el_vert), LAMBDA r_tensor :
    Local(make_el_tau_2_mc(el_vert, r_tensor, mode), LAMBDA tau_2_mc :
        assemble_sfm(sfm_mc_uniform, tau_2_mc, r_tensor)))

\* mutant of make_el_sfm_nonuniform: the operands of il::dot are exchanged
make_el_sfm_nonuniform_dot_exchanged(el_vert, vertex_wts, mode) ==
    Local(make_el_r_tensor(el_vert), LAMBDA r_tensor :
    Local(make_el_tau_2_mc(el_vert, r_tensor, mode), LAMBDA tau_2_mc :
    Local(sfm_mc_nonuniform(vertex_wts), LAMBDA sfm_mc :
    Local(CMat(sfm_mc), LAMBDA sfm_c :
    Local(tau_sq_2_mc_of(tau_2_mc), LAMBDA tau_sq_2_mc :
        [sfm |-> dot_66(tau_sq_2_mc, sfm_c),
         r_tensor |-> r_tensor,
         sfm_mc |-> sfm_mc,
         tau_2_mc |-> tau_2_mc,
         tau_sq_2_mc |-> tau_sq_2_mc])))))

make_el_sfm_nonuniform(el_vert, vertex_wts, mode) ==
    Local(sfm_mc_nonuniform(vertex_wts), LAMBDA sfm_mc :
    Local(make_el_r_tensor(el_vert), LAMBDA r_tensor :
    Local(make_el_tau_2_mc(el_vert, r_tensor, mode), LAMBDA tau_2_mc :
        assemble_sfm(sfm_mc, tau_2_mc, r_tensor))))

\* El_SFM_S and El_SFM_N get the map from El_CT, which writes the frame
\* into RT
El_SFM_S(EV, mode) ==
    Local(El_CT(EV, mode), LAMBDA MI :
    Local(El_LB_RT(EV), LAMBDA RT :
        assemble_sfm(sfm_mc_uniform, MI, RT)))

El_SFM_N(EV, VW, mode) ==
    Local(sfm_mc_nonuniform(VW), LAMBDA SFM_M :
    Local(El_CT(EV, mode), LAMBDA MI :
    Local(El_LB_RT(EV), LAMBDA RT :
        assemble_sfm(SFM_M, MI, RT))))

(***************************************************************************)
(* Collocation points: 6 points, coll_pt_crd[n][j] coordinate j of point n.*)
(***************************************************************************)
\* el_centroid{0.0}, then += el_vert(j, k) / 3.0 for k = 0, 1, 2
el_centroid_of(el_vert, start) ==
    Arr3([j \in I3 |->
        RAdd(RAdd(RAdd(start[j], RDiv(el_vert[j][0], R(3))),
                  RDiv(el_vert[j][1], R(3))),
             RDiv(el_vert[j][2], R(3)))])

ZeroVec == Vec(Zero, Zero, Zero)

\* int m = (n + 1) % 3; int l = (m + 1) % 3: the columns read for the edge
\* point n + 3, n = 0, 1, 2
edge_m(n) == (n + 1) % 3

edge_l(n) == (edge_m(n) + 1) % 3

el_cp_uniform(el_vert, beta) ==
    LET el_centroid == el_centroid_of(el_vert, ZeroVec)
    IN  Arr6([p \in I6 |-> Arr3([j \in I3 |->
            IF p < 3
            THEN RAdd(RMul(RSub(One, beta), el_vert[j][p]),
                      RMul(beta, el_centroid[j]))
            ELSE LET n == p - 3
                     m == edge_m(n)
                     l == edge_l(n)
                 IN  RAdd(RMul(RMul(Q(1, 2), RSub(One, beta)),
                               RAdd(el_vert[j][m], el_vert[j][l])),
                          RMul(beta, el_centroid[j]))])])

el_cp_nonuniform(el_vert, vertex_wts, beta) ==
    LET el_centroid == el_centroid_of(el_vert, ZeroVec)
    IN  Arr6([p \in I6 |-> Arr3([j \in I3 |->
            IF p < 3
            THEN RAdd(RMul(RSub(One, beta), el_vert[j][p]),
                      RMul(beta, el_centroid[j]))
            ELSE LET n == p - 3
                     m == edge_m(n)
                     l == edge_l(n)
                 IN  RAdd(RDiv(RMul(RSub(One, beta),
                                    RAdd(RMul(vertex_wts[m], el_vert[j][m]),
                                         RMul(vertex_wts[l], el_vert[j][l]))),
                               RAdd(vertex_wts[m], vertex_wts[l])),
                          RMul(beta, el_centroid[j]))])])

\* Ele_Base.cpp.  EC is declared without an initial value and then
\* accumulated into; the edge indices are taken with & 3, so EV(j, 3) and
\* VW[3] are read.  What such reads deliver is not determined by the
\* program: mem holds it (mem.ec the initial EC, mem.ev the values found at
\* EV(j, 3), mem.vw the value found at VW[3]).
JunkVecs == {ZeroVec, Vec(NaN, NaN, NaN), Vec(R(7), R(-1), R(2))}

JunkVals == {One, NaN, R(7)}

Mems == [ec : JunkVecs, ev : JunkVecs, vw : JunkVals]

\* x & 3 for x >= 0
and3(x) == x % 4

\* m = (n-2)&3; l = (m+1)&3: the columns read for the edge point n,
\* n = 3, 4, 5
edge_m_EB(n) == and3(n - 2)

edge_l_EB(n) == and3(edge_m_EB(n) + 1)

EV_at(EV, j, k, mem) == IF k \in I3 THEN EV[j][k] ELSE mem.ev[j]

VW_at(VW, k, mem) == IF k \in I3 THEN VW[k] ELSE mem.vw

El_CP_S(EV, beta, mem) ==
    LET EC == el_centroid_of(EV, mem.ec)
    IN  Arr6([n \in I6 |-> Arr3([j \in I3 |->
            IF n < 3
            THEN RAdd(RMul(RSub(One, beta), EV[j][n]), RMul(beta, EC[j]))
            ELSE LET m == edge_m_EB(n)
                     l == edge_l_EB(n)
                 IN  RAdd(RMul(RMul(Q(1, 2), RSub(One, beta)),
                               RAdd(EV_at(EV, j, m, mem),
                                    EV_at(EV, j, l, mem))),
                          RMul(beta, EC[j]))])])

El_CP_N(EV, VW, beta, mem) ==
    LET EC == el_centroid_of(EV, mem.ec)
    IN  Arr6([n \in I6 |-> Arr3([j \in I3 |->
            IF n < 3
            THEN RAdd(RMul(RSub(One, beta), EV[j][n]), RMul(beta, EC[j]))
            ELSE LET m == edge_m_EB(n)
                     l == edge_l_EB(n)
                 IN  RAdd(RDiv(RMul(RSub(One, beta),
                                    RAdd(RMul(VW_at(VW, m, mem),
                                              EV_at(EV, j, m, mem)),
                                         RMul(VW_at(VW, l, mem),
                                              EV_at(EV, j, l, mem)))),
                               RAdd(VW_at(VW, m, mem), VW_at(VW, l, mem))),
                          RMul(beta, EC[j]))])])

(***************************************************************************)
(* Basis re-centering: shift_el_sfm.                                       *)
(***************************************************************************)
\* mutant of shift_el_sfm: entries (5, 1) and (5, 2) are exchanged
shift_el_sfm_row5_exchanged(z) ==
    Local(CConj(z), LAMBDA zc :
        Mat6([i \in I6 |-> [j \in I6 |->
            CASE i = j -> COne
              [] i = 1 /\ j = 0 -> z
              [] i = 2 /\ j = 0 -> zc
              [] i = 3 /\ j = 0 -> CMul(z, z)
              [] i = 3 /\ j = 1 -> CScale(R(2), z)
              [] i = 4 /\ j = 0 -> CMul(zc, zc)
              [] i = 4 /\ j = 2 -> CScale(R(2), zc)
              [] i = 5 /\ j = 0 -> CMul(z, zc)
              [] i = 5 /\ j = 1 -> z
              [] i = 5 /\ j = 2 -> zc
              [] OTHER -> CZero]]))

\* mutant of shift_el_sfm: the factor 2.0 of entry (3, 1) is lost
shift_el_sfm_no_factor(z) ==
    Local(CConj(z), LAMBDA zc :
        Mat6([i \in I6 |-> [j \in I6 |->
            CASE i = j -> COne
              [] i = 1 /\ j = 0 -> z
              [] i = 2 /\ j = 0 -> zc
              [] i = 3 /\ j = 0 -> CMul(z, z)
              [] i = 3 /\ j = 1 -> z
              [] i = 4 /\ j = 0 -> CMul(zc, zc)
              [] i = 4 /\ j = 2 -> CScale(R(2), zc)
              [] i = 5 /\ j = 0 -> CMul(z, zc)
              [] i = 5 /\ j = 1 -> zc
              [] i = 5 /\ j = 2 -> z
              [] OTHER -> CZero]]))

\* shift_2_z{0.0}, then the fifteen entries assigned one by one
shift_el_sfm(z) ==
    Local(CConj(z), LAMBDA zc :
        Mat6([i \in I6 |-> [j \in I6 |->
            CASE i = j -> COne
              [] i = 1 /\ j = 0 -> z
              [] i = 2 /\ j = 0 -> zc
              [] i = 3 /\ j = 0 -> CMul(z, z)
              [] i = 3 /\ j = 1 -> CScale(R(2), z)
              [] i = 4 /\ j = 0 -> CMul(zc, zc)
              [] i = 4 /\ j = 2 -> CScale(R(2), zc)
              [] i = 5 /\ j = 0 -> CMul(z, zc)
              [] i = 5 /\ j = 1 -> zc
              [] i = 5 /\ j = 2 -> z
              [] OTHER -> CZero]]))

\* z: finite offsets with half-integer parts
Offsets ==
    {C(Q(a, 2), Q(b, 2)) : a, b \in (-MaxOffset)..MaxOffset}

(***************************************************************************)
(* Point localizer: h- and tau-coordinates of a point in the element's     *)
(* local frame, origin at the first vertex.                                *)
(***************************************************************************)
\* m_pt_c_r[k] = m_pt_crd[k] - el_vert(k, 0)
pt_rel(el_vert, m_pt_crd) ==
    Arr3([k \in I3 |-> RSub(m_pt_crd[k], el_vert[k][0])])

\* mutant of make_el_pt_hz: the sign of h is lost
make_el_pt_hz_h_sign_lost(el_vert, m_pt_crd, r_tensor) ==
    Local(dot_mv(r_tensor, pt_rel(el_vert, m_pt_crd)), LAMBDA m_pt_c_r :
        [h |-> m_pt_c_r[2], z |-> C(m_pt_c_r[0], m_pt_c_r[1])])

make_el_pt_hz(el_vert, m_pt_crd, r_tensor) ==
    Local(dot_mv(r_tensor, pt_rel(el_vert, m_pt_crd)), LAMBDA m_pt_c_r :
        [h |-> RNeg(m_pt_c_r[2]), z |-> C(m_pt_c_r[0], m_pt_c_r[1])])

\* El_X_CR is given the transposed rotation RMt
El_X_CR(RMt, EV, X0) ==
    Local(dot_mv(RMt, pt_rel(EV, X0)), LAMBDA X0r :
        [h |-> RNeg(X0r[2]), z |-> C(X0r[0], X0r[1])])

\* vertex k of an element as a point
Vertex(el_vert, k) == Arr3([j \in I3 |-> el_vert[j][k]])

\* the points localized: the vertices of the element and points off its
\* plane
FieldPoints(el_vert) ==
    {Vertex(el_vert, k) : k \in I3}
        \cup {Vec(R(0), R(0), R(0)), Vec(R(1), R(-2), R(4)),
              Vec(R(2), R(1), R(-1)), Vec(Q(1, 2), R(0), R(3))}

(***************************************************************************)
(* The driver (main.cpp): load the mesh, assemble the matrix, fill the     *)
(* right-hand side, factorize, solve, rebuild the nodal table.  The values *)
(* stored are computed by code outside this model; the state keeps which   *)
(* entries have been written and read, and how often.                      *)
(***************************************************************************)
\* il::int_t n = j * 6 + k
node_of(j, k) == j * 6 + k

\* mutant of dof_of: stride 2 instead of 3
dof_of_stride2(j, k, l) == node_of(j, k) * 2 + l

\* il::int_t dof = n * 3 + l
dof_of(j, k, l) == node_of(j, k) * 3 + l

\* num_dof = 18 * num_elems
num_dof_of(num_elems) == 18 * num_elems

\* mutant of abort_on_error: the status is not looked at
abort_on_error_ignored(status) == FALSE

\* status.abort_on_error(): the program stops iff the status holds an error
abort_on_error(status) == status = "error"

DrvInit ==
    [pc |-> "load", num_elems |-> 0, matrix |-> "none", j |-> 0, k |-> 0,
     l |-> 0, rhs |-> <<>>, status |-> "ok", solved |-> FALSE,
     dd_v |-> <<>>, oob |-> FALSE]

DrvStep(d) == drv' = d /\ UNCHANGED <<pc, op, args, res, env>>

\* the loop nest for j, for k < 6, for l < 3: the indices of the next turn
NextIdx(d) ==
    IF d.l < 2 THEN [d EXCEPT !.l = @ + 1]
    ELSE IF d.k < 5 THEN [d EXCEPT !.l = 0, !.k = @ + 1]
    ELSE [d EXCEPT !.l = 0, !.k = 0, !.j = @ + 1]

\* one more access to entry dof of an array of num_dof entries
Touch(cnt, dof) ==
    IF dof \in DOMAIN cnt THEN [cnt EXCEPT ![dof] = @ + 1] ELSE cnt

\* load_mesh_from_numpy_32; num_elems = mesh_conn.size(1)
Drv_load ==
    /\ drv.pc = "load"
    /\ \E n \in 0..MaxElems :
        DrvStep([drv EXCEPT !.pc = "allocate", !.num_elems = n])

\* il::Array2D<double> bem_matrix(num_dof, num_dof)
Drv_allocate ==
    /\ drv.pc = "allocate"
    /\ DrvStep([drv EXCEPT !.pc = "assemble", !.matrix = "allocated"])

\* bem_matrix = make_3dbem_matrix_s(...): the whole matrix is assigned
Drv_assemble ==
    /\ drv.pc = "assemble"
    /\ DrvStep([drv EXCEPT !.pc = "save_matrix", !.matrix = "assembled"])

\* save_data_to_csv(bem_matrix, ...); il::Array<double> rhs(num_dof)
Drv_save_matrix ==
    /\ drv.pc = "save_matrix"
    /\ DrvStep([drv EXCEPT
            !.pc = "rhs",
            !.rhs = [dof \in 0..(num_dof_of(drv.num_elems) - 1) |-> 0]])

\* rhs[dof] = (l != 1 ? 1.0 : 0.0)
Drv_rhs_write ==
    /\ drv.pc = "rhs"
    /\ drv.j < drv.num_elems
    /\ LET dof == dof_of(drv.j, drv.k, drv.l)
       IN  DrvStep(NextIdx([drv EXCEPT
                !.rhs = Touch(@, dof),
                !.oob = @ \/ dof \notin DOMAIN drv.rhs]))

\* j = num_elems: the loop is left
Drv_rhs_end ==
    /\ drv.pc = "rhs"
    /\ drv.j >= drv.num_elems
    /\ DrvStep([drv EXCEPT !.pc = "lu", !.j = 0])

\* il::LU lu_decomposition(bem_matrix, il::io, status): the factorization
\* succeeds or reports an error, as the matrix decides
Drv_lu ==
    /\ drv.pc = "lu"
    /\ \E st \in {"ok", "error"} :
        DrvStep([drv EXCEPT !.pc = "check", !.status = st])

\* status.abort_on_error()
Drv_abort_on_error ==
    /\ drv.pc = "check"
    /\ DrvStep([drv EXCEPT
            !.pc = IF abort_on_error(drv.status) THEN "aborted" ELSE "solve"])

\* dd_v = lu_decomposition.solve(rhs); il::Array2D<double> dd(...)
Drv_solve ==
    /\ drv.pc = "solve"
    /\ DrvStep([drv EXCEPT
            !.pc = "dd", !.solved = TRUE,
            !.dd_v = [dof \in 0..(num_dof_of(drv.num_elems) - 1) |-> 0]])

\* dd(n, l + 3) = dd_v[dof]
Drv_dd_read ==
    /\ drv.pc = "dd"
    /\ drv.j < drv.num_elems
    /\ LET dof == dof_of(drv.j, drv.k, drv.l)
       IN  DrvStep(NextIdx([drv EXCEPT
                !.dd_v = Touch(@, dof),
                !.oob = @ \/ dof \notin DOMAIN drv.dd_v]))

Drv_dd_end ==
    /\ drv.pc = "dd"
    /\ drv.j >= drv.num_elems
    /\ DrvStep([drv EXCEPT !.pc = "save", !.j = 0])

\* save_data_to_csv(dd, ...); return 0
Drv_save ==
    /\ drv.pc = "save"
    /\ DrvStep([drv EXCEPT !.pc = "done"])

(***************************************************************************)
(* The caller: it invokes one builder with inputs of its choice, receives  *)
(* what the builder returned, and goes back to idle.  No builder has a     *)
(* failure path: each call returns normally ("returned") with a value.     *)
(***************************************************************************)
Identity3 ==
    Mat3([i \in I3 |-> [j \in I3 |-> IF i = j THEN One ELSE Zero]])

\* the builder returns v and leaves e in the rotation-matrix object it was
\* given by non-const reference
ReturnedWriting(name, a, v, e) ==
    /\ pc' = "returned"
    /\ op' = name
    /\ args' = a
    /\ res' = [status |-> "returned", value |-> v]
    /\ env' = e
    /\ drv' = drv

\* the builder returns v; it has no reference it writes through
Returned(name, a, v) == ReturnedWriting(name, a, v, env)

Init ==
    /\ pc = "idle"
    /\ op = "none"
    /\ args = <<>>
    /\ res = <<>>
    /\ env = Identity3
    /\ drv = DrvInit

\* the caller takes the result and starts over with a fresh object
Return ==
    /\ pc = "returned"
    /\ pc' = "idle"
    /\ op' = "none"
    /\ args' = <<>>
    /\ res' = <<>>
    /\ env' = Identity3
    /\ drv' = drv

Call_make_el_r_tensor ==
    /\ pc = "idle"
    /\ \E el_vert \in Elements :
        Returned("make_el_r_tensor", [el_vert |-> el_vert],
                 make_el_r_tensor(el_vert))

\* El_LB_RT is void: what it delivers is the matrix it leaves in RM
Call_El_LB_RT ==
    /\ pc = "idle"
    /\ \E EV \in Elements :
        \E RM \in {El_LB_RT(EV)} :
            ReturnedWriting("El_LB_RT", [el_vert |-> EV], RM, RM)

\* the caller passes the element's own frame or any other rotation (here
\* the identity)
Call_make_el_tau_2_mc ==
    /\ pc = "idle"
    /\ \E el_vert \in Elements, own \in BOOLEAN, mode \in CDivModes :
        LET r_tensor == IF own THEN make_el_r_tensor(el_vert) ELSE Identity3
        IN  Returned("make_el_tau_2_mc",
                     [el_vert |-> el_vert, r_tensor |-> r_tensor],
                     make_el_tau_2_mc(el_vert, r_tensor, mode))

Call_El_CT ==
    /\ pc = "idle"
    /\ \E EV \in Elements, mode \in CDivModes :
        \E MI \in {El_CT(EV, mode)} :
            ReturnedWriting("El_CT", [el_vert |-> EV], MI, El_LB_RT(EV))

Call_make_el_sfm_uniform ==
    /\ pc = "idle"
    /\ \E el_vert \in SmallElements, mode \in CDivModes :
        \E out \in {make_el_sfm_uniform(el_vert, mode)} :
            ReturnedWriting("make_el_sfm_uniform", [el_vert |-> el_vert],
                            out, out.r_tensor)

Call_make_el_sfm_nonuniform ==
    /\ pc = "idle"
    /\ \E el_vert \in SmallElements, vertex_wts \in Weights, mode \in CDivModes :
        \E out \in {make_el_sfm_nonuniform(el_vert, vertex_wts, mode)} :
            ReturnedWriting("make_el_sfm_nonuniform",
                            [el_vert |-> el_vert, vertex_wts |-> vertex_wts],
                            out, out.r_tensor)

Call_El_SFM_S ==
    /\ pc = "idle"
    /\ \E EV \in SmallElements, mode \in CDivModes :
        \E out \in {El_SFM_S(EV, mode)} :
            ReturnedWriting("El_SFM_S", [el_vert |-> EV], out, out.r_tensor)

Call_El_SFM_N ==
    /\ pc = "idle"
    /\ \E EV \in SmallElements, VW \in Weights, mode \in CDivModes :
        \E out \in {El_SFM_N(EV, VW, mode)} :
            ReturnedWriting("El_SFM_N", [el_vert |-> EV, vertex_wts |-> VW],
                            out, out.r_tensor)

Call_el_cp_uniform ==
    /\ pc = "idle"
    /\ \E el_vert \in SmallElements, beta \in Betas :
        Returned("el_cp_uniform", [el_vert |-> el_vert, beta |-> beta],
                 el_cp_uniform(el_vert, beta))

Call_el_cp_nonuniform ==
    /\ pc = "idle"
    /\ \E el_vert \in SmallElements, vertex_wts \in Weights, beta \in Betas :
        Returned("el_cp_nonuniform",
                 [el_vert |-> el_vert, vertex_wts |-> vertex_wts,
                  beta |-> beta],
                 el_cp_nonuniform(el_vert, vertex_wts, beta))

\* a build that checks array indices stops at the read of EV(j, 3)
Aborted(name, a) ==
    /\ pc' = "aborted"
    /\ op' = name
    /\ args' = a
    /\ res' = [status |-> "aborted"]
    /\ env' = env
    /\ drv' = drv

Call_El_CP_S ==
    /\ pc = "idle"
    /\ \E EV \in SmallElements, beta \in Betas :
        \/ \E mem \in Mems :
            Returned("El_CP_S", [el_vert |-> EV, beta |-> beta, mem |-> mem],
                     El_CP_S(EV, beta, mem))
        \/ Aborted("El_CP_S", [el_vert |-> EV, beta |-> beta])

Call_El_CP_N ==
    /\ pc = "idle"
    /\ \E EV \in SmallElements, VW \in Weights, beta \in Betas :
        \/ \E mem \in Mems :
            Returned("El_CP_N",
                     [el_vert |-> EV, vertex_wts |-> VW, beta |-> beta,
                      mem |-> mem],
                     El_CP_N(EV, VW, beta, mem))
        \/ Aborted("El_CP_N",
                   [el_vert |-> EV, vertex_wts |-> VW, beta |-> beta])

NextCP ==
    \/ Call_el_cp_uniform
    \/ Call_el_cp_nonuniform
    \/ Call_El_CP_S
    \/ Call_El_CP_N
    \/ Return

SpecCP == Init /\ [][NextCP]_vars

NextGeom ==
    \/ Call_make_el_r_tensor
    \/ Call_El_LB_RT
    \/ Call_make_el_tau_2_mc
    \/ Call_El_CT
    \/ Return

NextSfm ==
    \/ Call_make_el_sfm_uniform
    \/ Call_make_el_sfm_nonuniform
    \/ Call_El_SFM_S
    \/ Call_El_SFM_N
    \/ Return

SpecGeom == Init /\ [][NextGeom]_vars

SpecSfm == Init /\ [][NextSfm]_vars

Call_shift_el_sfm ==
    /\ pc = "idle"
    /\ \E z \in Offsets :
        Returned("shift_el_sfm", [z |-> z], shift_el_sfm(z))

NextShift ==
    \/ Call_shift_el_sfm
    \/ Return

SpecShift == Init /\ [][NextShift]_vars

\* the caller passes the element's own frame or the identity
Call_make_el_pt_hz ==
    /\ pc = "idle"
    /\ \E el_vert \in Elements, own \in BOOLEAN :
        \E r_tensor \in {IF own THEN make_el_r_tensor(el_vert) ELSE Identity3} :
            \E m_pt_crd \in FieldPoints(el_vert) :
                Returned("make_el_pt_hz",
                         [el_vert |-> el_vert, pt |-> m_pt_crd,
                          frame |-> r_tensor],
                         make_el_pt_hz(el_vert, m_pt_crd, r_tensor))

\* RMt as El_RT_Tr makes it from the frame of El_LB_RT, or the identity
Call_El_X_CR ==
    /\ pc = "idle"
    /\ \E EV \in Elements, own \in BOOLEAN :
        \E RMt \in {IF own THEN Transpose(El_LB_RT(EV)) ELSE Identity3} :
            \E X0 \in FieldPoints(EV) :
                Returned("El_X_CR", [el_vert |-> EV, pt |-> X0, frame |-> RMt],
                         El_X_CR(RMt, EV, X0))

NextPt ==
    \/ Call_make_el_pt_hz
    \/ Call_El_X_CR
    \/ Return

SpecPt == Init /\ [][NextPt]_vars

\* every builder
NextBuilders ==
    \/ Call_make_el_r_tensor
    \/ Call_El_LB_RT
    \/ Call_make_el_tau_2_mc
    \/ Call_El_CT
    \/ Call_make_el_sfm_uniform
    \/ Call_make_el_sfm_nonuniform
    \/ Call_El_SFM_S
    \/ Call_El_SFM_N
    \/ Call_shift_el_sfm
    \/ Call_el_cp_uniform
    \/ Call_el_cp_nonuniform
    \/ Call_El_CP_S
    \/ Call_El_CP_N
    \/ Call_make_el_pt_hz
    \/ Call_El_X_CR
    \/ Return

SpecBuilders == Init /\ [][NextBuilders]_vars

NextDriver ==
    \/ Drv_load
    \/ Drv_allocate
    \/ Drv_assemble
    \/ Drv_save_matrix
    \/ Drv_rhs_write
    \/ Drv_rhs_end
    \/ Drv_lu
    \/ Drv_abort_on_error
    \/ Drv_solve
    \/ Drv_dd_read
    \/ Drv_dd_end
    \/ Drv_save

SpecDriver == Init /\ [][NextDriver]_vars

(***************************************************************************)
(* Properties.  Helpers used only to state them.                           *)
(***************************************************************************)
FrameOps == {"make_el_r_tensor", "El_LB_RT"}

MapOps == {"make_el_tau_2_mc", "El_CT"}

RDot(a, b) == RAdd(RAdd(RMul(a[0], b[0]), RMul(a[1], b[1])), RMul(a[2], b[2]))

IsZeroVec(a) == \A k \in I3 : IsZero(a[k])

\* vertex1 = vertex0, or the three vertices on one line
ZeroArea(el_vert) ==
    IsZeroVec(cross(edge_vec(el_vert, 1), edge_vec(el_vert, 2)))

\* same direction and sense
Parallel(u, v) == IsZeroVec(cross(u, v)) /\ RDot(u, v)[1] > 0

Det3(F) ==
    RAdd(RSub(RMul(F[0][0], RSub(RMul(F[1][1], F[2][2]),
                                 RMul(F[1][2], F[2][1]))),
              RMul(F[0][1], RSub(RMul(F[1][0], F[2][2]),
                                 RMul(F[1][2], F[2][0])))),
         RMul(F[0][2], RSub(RMul(F[1][0], F[2][1]),
                            RMul(F[1][1], F[2][0]))))

UnitElement == MkElement(Origin0, <<1, 0, 0>>, <<0, 1, 0>>)

\* the frame the conformal-map call worked with is the element's own
OwnFrame ==
    \/ op = "El_CT"
    \/ op = "make_el_tau_2_mc"
        /\ args.r_tensor = make_el_r_tensor(args.el_vert)

\* z1, z2 as the conformal-map call of this state computed them
Z23(k) ==
    IF op = "El_CT"
    THEN Local(El_LB_RT(args.el_vert), LAMBDA RM : z23_EB(args.el_vert, RM, k))
    ELSE z23_of(args.el_vert, args.r_tensor, k)

\* M * (z, conj z)
MApply(M, z) ==
    <<CAdd(CMul(M[0][0], z), CMul(M[0][1], CConj(z))),
      CAdd(CMul(M[1][0], z), CMul(M[1][1], CConj(z)))>>

\* C2: the frame builder fails with DegenerateElementError, returning no
\* rotation, when vertex1 = vertex0 or the vertices are colinear.
C2_FrameBuilderRaisesOnDegenerate ==
    (pc = "returned" /\ op \in FrameOps /\ ZeroArea(args.el_vert))
        => res.status = "DegenerateElementError"

\* C3: the conformal-map builder fails with DegenerateElementError,
\* returning no matrix, when D = z1*conj(z2) - z2*conj(z1) is zero; it never
\* divides by a zero D.
C3_ConformalMapRaisesOnZeroDet ==
    (pc = "returned" /\ op \in MapOps
        /\ m_det_of(Z23(0), Z23(1)) = CZero)
        => res.status = "DegenerateElementError"

\* C6: for a non-degenerate element the frame is orthonormal and
\* right-handed, e1 along vertex1 - vertex0, e3 along
\* cross(e1, vertex2 - vertex0), e2 = cross(e3, e1).
C6_FrameOrthonormalRightHanded ==
    (pc = "returned" /\ op \in FrameOps /\ ~ZeroArea(args.el_vert))
        => LET F == res.value
               E == IF op = "make_el_r_tensor" THEN F ELSE Transpose(F)
           IN  /\ res.status = "returned"
               /\ dot_mm(Transpose(F), F) = Identity3
               /\ Det3(F) = One
               /\ Parallel(E[0], edge_vec(args.el_vert, 1))
               /\ Parallel(E[2], cross(E[0], edge_vec(args.el_vert, 2)))
               /\ E[1] = cross(E[2], E[0])

C6_Witness ==
    /\ pc = "returned"
    /\ op = "make_el_r_tensor"
    /\ ~ZeroArea(args.el_vert)
    /\ res.value[0] = Vec(Q(1, 3), Q(2, 3), Q(2, 3))

\* C7: for a non-degenerate element the conformal map M, built with the
\* element's own frame, sends vertex1 to (1, 0) and vertex2 to (0, 1):
\* M*(z1, conj z1) = (1, 0), M*(z2, conj z2) = (0, 1); vertex0 goes to (0, 0).
C7_ConformalMapSendsVerticesToMaster ==
    (pc = "returned" /\ op \in MapOps /\ ~ZeroArea(args.el_vert) /\ OwnFrame)
        => /\ res.status = "returned"
           /\ MApply(res.value, Z23(0)) = <<COne, CZero>>
           /\ MApply(res.value, Z23(1)) = <<CZero, COne>>
           /\ MApply(res.value, CZero) = <<CZero, CZero>>

C7_Witness ==
    /\ pc = "returned"
    /\ op = "make_el_tau_2_mc"
    /\ ~ZeroArea(args.el_vert)
    /\ OwnFrame
    /\ args.r_tensor # Identity3
    /\ Z23(1)[1] # Zero
    /\ Z23(1)[2] # Zero

\* C8 as stated: for the element (0,0,0), (1,0,0), (0,1,0) the conformal-map
\* builder returns the 2x2 identity.
C8_UnitElementMapIsIdentity ==
    (pc = "returned" /\ op \in MapOps /\ args.el_vert = UnitElement
        /\ OwnFrame)
        => res.value = Mat2([i \in I2 |-> [j \in I2 |->
                            IF i = j THEN COne ELSE CZero]])

\* C8 amended: for that element the builder returns
\* [[1/2, 1/2], [-i/2, i/2]], the map (tau, conj tau) -> (Re tau, Im tau).
C8_UnitElementMapIsRealImagParts ==
    (pc = "returned" /\ op \in MapOps /\ args.el_vert = UnitElement
        /\ OwnFrame)
        => res.value = Mat2([i \in I2 |-> [j \in I2 |->
                            IF i = 0 THEN C(Q(1, 2), Zero)
                            ELSE IF j = 0 THEN C(Zero, Q(-1, 2))
                            ELSE C(Zero, Q(1, 2))]])

C8_Witness ==
    /\ pc = "returned"
    /\ op = "make_el_tau_2_mc"
    /\ args.el_vert = UnitElement
    /\ args.r_tensor = Identity3
    /\ OwnFrame

UniformOps == {"make_el_sfm_uniform", "El_SFM_S"}

NonuniformOps == {"make_el_sfm_nonuniform", "El_SFM_N"}

OnesW == Vec(One, One, One)

IsPositive(a) == a[1] > 0

PositiveWeights(w) == \A k \in I3 : IsPositive(w[k])

EqualWeights(w) == w[0] = w[1] /\ w[1] = w[2]

MasterVertex(k) ==
    IF k = 0 THEN <<Zero, Zero>>
    ELSE IF k = 1 THEN <<One, Zero>>
    ELSE <<Zero, One>>

\* master coordinate of node j: the vertices, then on the edge across
\* vertex n the weighted average of the two other vertices
MasterNode(j, w) ==
    IF j < 3 THEN MasterVertex(j)
    ELSE LET n == j - 3
             m == (n + 1) % 3
             l == (n + 2) % 3
             sum == RAdd(w[m], w[l])
         IN  <<RDiv(RAdd(RMul(w[m], MasterVertex(m)[1]),
                         RMul(w[l], MasterVertex(l)[1])), sum),
               RDiv(RAdd(RMul(w[m], MasterVertex(m)[2]),
                         RMul(w[l], MasterVertex(l)[2])), sum)>>

\* row as a polynomial in 1, x, y, x^2, y^2, x*y at the point p
EvalRow(row, p) ==
    LET x == p[1]
        y == p[2]
    IN  RAdd(RAdd(RAdd(RAdd(RAdd(row[0], RMul(row[1], x)), RMul(row[2], y)),
                       RMul(row[3], RMul(x, x))),
                  RMul(row[4], RMul(y, y))),
             RMul(row[5], RMul(x, y)))

Nodal(mc, w) ==
    \A i \in I6, j \in I6 :
        EvalRow(mc[i], MasterNode(j, w)) = IF i = j THEN One ELSE Zero

\* C1: row i of the master coefficient matrix, evaluated at the master
\* coordinate of node j, is 1 for i = j and 0 otherwise, for the uniform
\* builders (midpoints) and for the non-uniform builders with positive
\* weights (weighted edge points).
C1_NodalProperty ==
    pc = "returned" =>
        /\ op \in UniformOps => Nodal(res.value.sfm_mc, OnesW)
        /\ (op \in NonuniformOps /\ PositiveWeights(args.vertex_wts))
            => Nodal(res.value.sfm_mc, args.vertex_wts)

C1_Witness ==
    /\ pc = "returned"
    /\ op = "make_el_sfm_nonuniform"
    /\ PositiveWeights(args.vertex_wts)
    /\ args.vertex_wts[0] # args.vertex_wts[1]
    /\ args.vertex_wts[1] # args.vertex_wts[2]
    /\ Nodal(res.value.sfm_mc, args.vertex_wts)

\* C4: the non-uniform builder fails with InvalidWeightError, returning no
\* matrix, when a vertex weight is zero or negative.
C4_NonuniformRaisesOnBadWeight ==
    (pc = "returned" /\ op \in NonuniformOps /\ ~ZeroArea(args.el_vert)
        /\ ~PositiveWeights(args.vertex_wts))
        => res.status = "InvalidWeightError"

\* C5: for a non-degenerate element the non-uniform matrix built with three
\* equal (positive) weights equals the uniform matrix of the same element,
\* entry by entry.
C5_ReductionToUniform ==
    (pc = "returned" /\ op \in NonuniformOps /\ ~ZeroArea(args.el_vert)
        /\ EqualWeights(args.vertex_wts) /\ PositiveWeights(args.vertex_wts))
        => \A mode \in CDivModes :
            res.value.sfm =
                IF op = "make_el_sfm_nonuniform"
                THEN make_el_sfm_uniform(args.el_vert, mode).sfm
                ELSE El_SFM_S(args.el_vert, mode).sfm

C5_Witness ==
    /\ pc = "returned"
    /\ op = "make_el_sfm_nonuniform"
    /\ ~ZeroArea(args.el_vert)
    /\ args.vertex_wts = Vec(R(2), R(2), R(2))
    /\ \A i \in I6, j \in I6 : CIsFinite(res.value.sfm[i][j])
    /\ res.value.sfm = make_el_sfm_uniform(args.el_vert, "annexG").sfm

CPUniformOps == {"el_cp_uniform", "El_CP_S"}

CPNonuniformOps == {"el_cp_nonuniform", "El_CP_N"}

CPOps == CPUniformOps \cup CPNonuniformOps

CalledWeights == IF op \in CPNonuniformOps THEN args.vertex_wts ELSE OnesW

\* mean of the three vertices, coordinate j
Centroid(el_vert, j) ==
    RDiv(RAdd(RAdd(el_vert[j][0], el_vert[j][1]), el_vert[j][2]), R(3))

\* weight-normalised average of the two vertices other than vertex n
EdgeAverage(el_vert, w, n, j) ==
    LET m == (n + 1) % 3
        l == (n + 2) % 3
    IN  RDiv(RAdd(RMul(w[m], el_vert[j][m]), RMul(w[l], el_vert[j][l])),
             RAdd(w[m], w[l]))

ExpectedPoint(el_vert, w, beta, p, j) ==
    RAdd(RMul(RSub(One, beta),
              IF p < 3 THEN el_vert[j][p]
              ELSE EdgeAverage(el_vert, w, p - 3, j)),
         RMul(beta, Centroid(el_vert, j)))

ExpectedPoints(el_vert, w, beta) ==
    Arr6([p \in I6 |-> Arr3([j \in I3 |->
        ExpectedPoint(el_vert, w, beta, p, j)])])

\* C9: every collocation-point builder returns the 6 points
\* (1-beta)*vertex[n] + beta*centroid (n = 0, 1, 2) and
\* (1-beta)*A + beta*centroid (n = 3, 4, 5), A the (weighted) average of the
\* two vertices other than vertex n-3, for positive weights.
C9_CollocationPoints ==
    (pc \in {"returned", "aborted"} /\ op \in CPOps
        /\ PositiveWeights(CalledWeights))
        => /\ res.status = "returned"
           /\ res.value = ExpectedPoints(args.el_vert, CalledWeights,
                                         args.beta)

\* C10: the uniform collocation-point builder returns exactly the points the
\* non-uniform builder returns for the weights (1, 1, 1), whatever the
\* latter can return.
C10_UniformEqualsNonuniformOnes ==
    /\ (pc = "returned" /\ op = "el_cp_uniform")
        => res.value = el_cp_nonuniform(args.el_vert, OnesW, args.beta)
    /\ (pc \in {"returned", "aborted"} /\ op = "El_CP_S")
        => /\ res.status = "returned"
           /\ \A mem \in Mems :
                res.value = El_CP_N(args.el_vert, OnesW, args.beta, mem)

(***************************************************************************)
(* Shift builder.                                                          *)
(***************************************************************************)
Identity6 ==
    Mat6([i \in I6 |-> [j \in I6 |-> IF i = j THEN COne ELSE CZero]])

\* 1, tau, conj(tau), tau^2, conj(tau)^2, tau*conj(tau)
Monomials(tau) ==
    Local(CConj(tau), LAMBDA tc :
        Arr6([k \in I6 |->
            CASE k = 0 -> COne
              [] k = 1 -> tau
              [] k = 2 -> tc
              [] k = 3 -> CMul(tau, tau)
              [] k = 4 -> CMul(tc, tc)
              [] k = 5 -> CMul(tau, tc)]))

CSum6(t) ==
    Local(CAdd(CAdd(t[0], t[1]), t[2]), LAMBDA s :
        CAdd(CAdd(CAdd(s, t[3]), t[4]), t[5]))

\* the polynomial whose coefficients in the monomials are row k of S, at tau
RowAt(S, k, tau) ==
    Local(Monomials(tau), LAMBDA mono :
    Local(Arr6([j \in I6 |-> CMul(S[k][j], mono[j])]), LAMBDA t : CSum6(t)))

\* nine points: a polynomial of degree 2 in (x, y) is fixed by its values
\* on them
TestTaus == {C(R(x), R(y)) : x, y \in {-1, 0, 1}}

ShiftReturned == pc = "returned" /\ op = "shift_el_sfm"

\* C11: for every (finite) offset z, the product of the Shift Builder's
\* matrix for z with its matrix for -z is the 6x6 identity.
C11_ShiftRoundTrip ==
    ShiftReturned
        => dot_66(res.value, shift_el_sfm(CNeg(args.z))) = Identity6

C11_Witness ==
    /\ ShiftReturned
    /\ args.z = C(Q(1, 2), R(1))
    /\ res.value[5][1] = C(Q(1, 2), R(-1))

\* C12 as stated: row k of the matrix for z holds the coefficients, in the
\* un-shifted monomials, of the k-th monomial of (tau - z).
C12_ShiftRowsAreMonomialsMinusZ ==
    ShiftReturned
        => \A k \in I6, tau \in TestTaus :
            RowAt(res.value, k, tau) = Monomials(CSub(tau, args.z))[k]

\* C12 amended: row k of the matrix for z holds the coefficients, in the
\* un-shifted monomials, of the k-th monomial of (tau + z).
C12_ShiftRowsAreMonomialsPlusZ ==
    ShiftReturned
        => \A k \in I6, tau \in TestTaus :
            RowAt(res.value, k, tau) = Monomials(CAdd(tau, args.z))[k]

C12_Witness ==
    /\ ShiftReturned
    /\ args.z = C(Q(-3, 2), Q(1, 2))
    /\ res.value[1][0] = args.z
    /\ res.value[3][1] = C(R(-3), R(1))

(***************************************************************************)
(* Point localizer.                                                        *)
(***************************************************************************)
PtOps == {"make_el_pt_hz", "El_X_CR"}

\* the frame given to the localizer is the element's own
PtOwnFrame ==
    \/ op = "make_el_pt_hz" /\ args.frame = make_el_r_tensor(args.el_vert)
    \/ op = "El_X_CR" /\ args.frame = Transpose(El_LB_RT(args.el_vert))

\* z1 as the conformal-map builder of the same implementation computes it
PtZ1 ==
    IF op = "El_X_CR"
    THEN Local(El_LB_RT(args.el_vert), LAMBDA RM :
            z23_EB(args.el_vert, RM, 0))
    ELSE Local(make_el_r_tensor(args.el_vert), LAMBDA r_tensor :
            z23_of(args.el_vert, r_tensor, 0))

\* local x, y, z of the point: its components along e1, e2, e3
PtLocal(k) ==
    Local(make_el_r_tensor(args.el_vert), LAMBDA r_tensor :
        RDot(r_tensor[k], pt_rel(args.el_vert, args.pt)))

PtCase ==
    /\ pc = "returned"
    /\ op \in PtOps
    /\ ~ZeroArea(args.el_vert)
    /\ PtOwnFrame

\* C13: for a non-degenerate element with its own frame, the Point Localizer
\* returns (h = 0, z = 0) at vertex0 and (h = 0, z = z1) at vertex1, and in
\* general z = local x + i * local y, h = -(local z).
C13_PointLocalizer ==
    PtCase =>
        /\ args.pt = Vertex(args.el_vert, 0)
            => res.value.h = Zero /\ res.value.z = CZero
        /\ args.pt = Vertex(args.el_vert, 1)
            => res.value.h = Zero /\ res.value.z = PtZ1
        /\ res.value.z = C(PtLocal(0), PtLocal(1))
        /\ res.value.h = RNeg(PtLocal(2))

C13_Witness ==
    /\ PtCase
    /\ op = "El_X_CR"
    /\ args.pt = Vertex(args.el_vert, 1)
    /\ res.value.z # CZero

(***************************************************************************)
(* Frame effects.                                                          *)
(***************************************************************************)
\* a call: the step from idle to the builder's outcome
IsCall == pc = "idle" /\ pc' # "idle"

\* what an El_CP_S / El_CP_N call delivers does not depend on anything but
\* its arguments
CPReadsOnlyInputs ==
    (pc \in {"returned", "aborted"} /\ op \in {"El_CP_S", "El_CP_N"})
        => /\ res.status = "returned"
           /\ \A mem \in Mems :
                res.value =
                    IF op = "El_CP_S"
                    THEN El_CP_S(args.el_vert, args.beta, mem)
                    ELSE El_CP_N(args.el_vert, args.vertex_wts, args.beta,
                                 mem)

\* C14: a builder invocation leaves every caller-visible object as it was,
\* except for what it returns (for the void El_LB_RT: the matrix it is asked
\* to fill), and what it returns is determined by its inputs alone.
C14_BuildersArePure ==
    /\ [][(IsCall /\ op' # "El_LB_RT") => env' = env]_vars
    /\ []CPReadsOnlyInputs

(***************************************************************************)
(* Driver.                                                                 *)
(***************************************************************************)
\* C15: the dense solve never begins before the matrix is assembled, and it
\* is never executed when the LU factorization reported an error.
C15_SolveAfterAssemblyAndGoodLU ==
    /\ drv.pc = "solve" => drv.matrix = "assembled" /\ drv.status = "ok"
    /\ drv.solved => drv.matrix = "assembled" /\ drv.status = "ok"
    /\ drv.status = "error" => drv.pc \in {"check", "aborted"}

C15_Witness ==
    /\ drv.pc = "dd"
    /\ drv.solved
    /\ drv.num_elems = 2
    /\ drv.j = 0 /\ drv.k = 0 /\ drv.l = 0

AllOnce(cnt, n) ==
    /\ DOMAIN cnt = 0..(18 * n - 1)
    /\ \A dof \in DOMAIN cnt : cnt[dof] = 1

\* C20: dof = (j*6 + k)*3 + l takes every value of 0..18*num_elems-1 exactly
\* once: every entry of the right-hand side is written exactly once before
\* the factorization, every solution entry is read exactly once during the
\* reconstruction, and no index falls outside the arrays.
C20_DofIndexBijection ==
    /\ ~drv.oob
    /\ \A dof \in DOMAIN drv.rhs : drv.rhs[dof] <= 1
    /\ \A dof \in DOMAIN drv.dd_v : drv.dd_v[dof] <= 1
    /\ drv.pc \in {"lu", "check", "solve", "dd", "save", "done", "aborted"}
        => AllOnce(drv.rhs, drv.num_elems)
    /\ drv.pc \in {"save", "done"} => AllOnce(drv.dd_v, drv.num_elems)

C20_Witness ==
    /\ drv.pc = "done"
    /\ drv.num_elems = 2
    /\ drv.rhs[35] = 1
    /\ drv.dd_v[35] = 1

(***************************************************************************)
(* The two implementations side by side.                                   *)
(***************************************************************************)
\* C16: for every non-degenerate element the matrix El_LB_RT leaves in RM
\* (basis vectors as columns) is exactly the transpose of the matrix
\* make_el_r_tensor returns (basis vectors as rows).
C16_FramesAreTransposes ==
    (pc = "returned" /\ op \in FrameOps /\ ~ZeroArea(args.el_vert))
        => /\ op = "El_LB_RT"
                => res.value = Transpose(make_el_r_tensor(args.el_vert))
           /\ op = "make_el_r_tensor"
                => El_LB_RT(args.el_vert) = Transpose(res.value)

C16_Witness ==
    /\ pc = "returned"
    /\ op = "El_LB_RT"
    /\ ~ZeroArea(args.el_vert)
    /\ res.value # Transpose(res.value)
    /\ res.value[1][0] = Q(2, 3)
    /\ res.value = Transpose(make_el_r_tensor(args.el_vert))

SfmOps == UniformOps \cup NonuniformOps

\* 0 for the constant slot, 1 for the linear block, 2 for the quadratic one
BlockOf(j) == IF j = 0 THEN 0 ELSE IF j <= 2 THEN 1 ELSE 2

BlockDiagonal(T, M) ==
    /\ T[0][0] = COne
    /\ \A j \in I2, k \in I2 : T[j + 1][k + 1] = M[j][k]
    /\ \A j \in I6, k \in I6 : BlockOf(j) # BlockOf(k) => T[j][k] = CZero

\* (1, x, y, x^2, y^2, x*y) with (x, y) = M * (tau, conj tau)
MasterMonomials(M, tau) ==
    Local(MApply(M, tau), LAMBDA xy :
        Arr6([k \in I6 |->
            CASE k = 0 -> COne
              [] k = 1 -> xy[1]
              [] k = 2 -> xy[2]
              [] k = 3 -> CMul(xy[1], xy[1])
              [] k = 4 -> CMul(xy[2], xy[2])
              [] k = 5 -> CMul(xy[1], xy[2])]))

\* entry j of T times the vector v; outside its diagonal blocks T is zero
BlockRowTimes(T, j, v) ==
    IF j = 0 THEN CMul(T[0][0], v[0])
    ELSE IF j <= 2 THEN CAdd(CMul(T[j][1], v[1]), CMul(T[j][2], v[2]))
    ELSE CAdd(CAdd(CMul(T[j][3], v[3]), CMul(T[j][4], v[4])),
              CMul(T[j][5], v[5]))

MapsMonomials(T, M, tau) ==
    Local(MasterMonomials(M, tau), LAMBDA target :
    Local(Monomials(tau), LAMBDA mono :
        \A j \in I6 : BlockRowTimes(T, j, mono) = target[j]))

\* C17: in the shape-function builders of both implementations the 6x6
\* basis-change matrix is block-diagonal (1, the 2x2 conformal map M, the 3x3
\* extension, zero elsewhere) and sends (1, tau, conj tau, tau^2,
\* conj(tau)^2, tau*conj(tau)) to (1, x, y, x^2, y^2, x*y) with
\* (x, y) = M * (tau, conj tau), for every tau.
C17_BasisChangeMatrix ==
    (pc = "returned" /\ op \in SfmOps /\ ~ZeroArea(args.el_vert))
        => /\ BlockDiagonal(res.value.tau_sq_2_mc, res.value.tau_2_mc)
           /\ \A tau \in TestTaus :
                MapsMonomials(res.value.tau_sq_2_mc, res.value.tau_2_mc, tau)

C17_Witness ==
    /\ pc = "returned"
    /\ op = "El_SFM_S"
    /\ ~ZeroArea(args.el_vert)
    /\ res.value.tau_sq_2_mc[3][5] # CZero
    /\ res.value.tau_sq_2_mc[5][3] # CZero
    /\ MapsMonomials(res.value.tau_sq_2_mc, res.value.tau_2_mc,
                     C(R(1), R(-1)))

(***************************************************************************)
(* Collocation points: the indices read.                                   *)
(***************************************************************************)
\* the vertex-column (and weight) indices read for edge point p = 3, 4, 5 by
\* the builder called
EdgeReads(p) ==
    IF op \in {"El_CP_S", "El_CP_N"}
    THEN {edge_m_EB(p), edge_l_EB(p)}
    ELSE {edge_m(p - 3), edge_l(p - 3)}

\* C18: in every collocation-point builder every vertex-column index and
\* weight index read for the three edge points is in {0, 1, 2}, and the two
\* indices read for edge point n are the two vertices other than n - 3.
C18_EdgeIndicesInRange ==
    (pc \in {"returned", "aborted"} /\ op \in CPOps)
        => \A p \in 3..5 :
            /\ EdgeReads(p) \subseteq I3
            /\ EdgeReads(p) = I3 \ {p - 3}

\* what the builder of the other implementation returns for the arguments
\* of the call of this state
Counterpart(mode) ==
    CASE op = "El_SFM_S" -> make_el_sfm_uniform(args.el_vert, mode)
      [] op = "make_el_sfm_uniform" -> El_SFM_S(args.el_vert, mode)
      [] op = "El_SFM_N" ->
            make_el_sfm_nonuniform(args.el_vert, args.vertex_wts, mode)
      [] op = "make_el_sfm_nonuniform" ->
            El_SFM_N(args.el_vert, args.vertex_wts, mode)

SameAsCounterpart(mode) ==
    Local(Counterpart(mode), LAMBDA other :
        /\ res.value.tau_2_mc = other.tau_2_mc
        /\ res.value.sfm = other.sfm
        /\ res.value.r_tensor = Transpose(other.r_tensor))

\* C19: for every non-degenerate element (and positive weights) the chain
\* El_LB_RT -> El_CT -> El_SFM_S / El_SFM_N yields the same conformal map and
\* the same 6x6 shape-function matrix as the chain make_el_r_tensor ->
\* make_el_tau_2_mc -> make_el_sfm_uniform / make_el_sfm_nonuniform, while
\* the two rotation matrices are transposes of each other.
C19_ImplementationsAgree ==
    (pc = "returned" /\ op \in SfmOps /\ ~ZeroArea(args.el_vert)
        /\ (op \in NonuniformOps => PositiveWeights(args.vertex_wts)))
        => \A mode \in CDivModes : SameAsCounterpart(mode)

C19_Witness ==
    /\ pc = "returned"
    /\ op = "El_SFM_N"
    /\ ~ZeroArea(args.el_vert)
    /\ PositiveWeights(args.vertex_wts)
    /\ args.vertex_wts[0] # args.vertex_wts[1]
    /\ res.value.r_tensor # Transpose(res.value.r_tensor)
    /\ \A i \in I6, j \in I6 : CIsFinite(res.value.sfm[i][j])
    /\ SameAsCounterpart("textbook")

====
